---------------------------- MODULE Spec2Model ----------------------------
(***************************************************************************)
(* A model of layerpack: the dependency resolver adapter                   *)
(* (dependency_manager.py), the layer builder (layer_builder.py) and the   *)
(* build pipeline (packager.py).                                           *)
(*                                                                         *)
(* Text is modelled as a sequence of one-character strings, so that        *)
(* stripping, prefix tests, splitting and substring search are computed    *)
(* the way the Python code computes them.  A directory tree is a function  *)
(* from relative paths (sequences of names) to DIR or a file's content id. *)
(***************************************************************************)
EXTENDS Integers, Sequences, FiniteSets, TLC

(***************************************************************************)
(* Text helpers (Python str methods used by the code)                      *)
(***************************************************************************)

\* characters str.strip() removes
IsSpace(c) == c \in {" ", "\t", "\n"}

RECURSIVE LStrip(_)
LStrip(s) == IF s # <<>> /\ IsSpace(Head(s)) THEN LStrip(Tail(s)) ELSE s

RECURSIVE RStrip(_)
RStrip(s) ==
    IF s # <<>> /\ IsSpace(s[Len(s)]) THEN RStrip(SubSeq(s, 1, Len(s) - 1)) ELSE s

\* str.strip()
Strip(s) == RStrip(LStrip(s))

\* str.startswith(p)
StartsWith(s, p) == Len(s) >= Len(p) /\ SubSeq(s, 1, Len(p)) = p

\* str.lower(), one character
Upper == <<"A","B","C","D","E","F","G","H","I","J","K","L","M",
           "N","O","P","Q","R","S","T","U","V","W","X","Y","Z">>

Lowercase == <<"a","b","c","d","e","f","g","h","i","j","k","l","m",
               "n","o","p","q","r","s","t","u","v","w","x","y","z">>

LowerChar(c) ==
    IF \E i \in 1..Len(Upper) : Upper[i] = c
    THEN Lowercase[CHOOSE i \in 1..Len(Upper) : Upper[i] = c]
    ELSE c

Lower(s) == [i \in 1..Len(s) |-> LowerChar(s[i])]

\* sub in s
Contains(s, sub) ==
    \E i \in 0..(Len(s) - Len(sub)) : SubSeq(s, i + 1, i + Len(sub)) = sub

\* str.split(sep): the pieces between the non-overlapping occurrences of sep,
\* found left to right
RECURSIVE SplitFrom(_, _, _)
SplitFrom(s, sep, cur) ==
    IF s = <<>> THEN <<cur>>
    ELSE IF StartsWith(s, sep)
         THEN <<cur>> \o SplitFrom(SubSeq(s, Len(sep) + 1, Len(s)), sep, <<>>)
         ELSE SplitFrom(Tail(s), sep, Append(cur, Head(s)))

Split(s, sep) == SplitFrom(s, sep, <<>>)

\* str.splitlines(): lines end at "\n"; no empty last line
SplitLines(s) ==
    LET parts == Split(s, <<"\n">>)
    IN  IF parts[Len(parts)] = <<>> THEN SubSeq(parts, 1, Len(parts) - 1) ELSE parts


(***************************************************************************)
(* Exceptions and the Python dict                                          *)
(***************************************************************************)

\* an exception: its class and its message (a fixed prefix followed by the
\* text interpolated into it)
Exc(type, prefix, text) == [type |-> type, prefix |-> prefix, text |-> text]

NoExc == [type |-> "none", prefix |-> "", text |-> <<>>]

\* a dict is the sequence of its <<key, value>> items in insertion order
DictKeys(d) == {d[i][1] : i \in 1..Len(d)}

\* d[k] = v: a new key is appended, an existing key keeps its place
DictSet(d, k, v) ==
    IF k \in DictKeys(d)
    THEN [i \in 1..Len(d) |-> IF d[i][1] = k THEN <<k, v>> ELSE d[i]]
    ELSE Append(d, <<k, v>>)

(***************************************************************************)
(* DependencyManager.resolve_dependencies                                  *)
(***************************************************************************)

\* the two needles of the error classification
NotFoundNeedle == <<"n","o","t"," ","f","o","u","n","d">>

NoVersionNeedle ==
    <<"c","o","u","l","d"," ","n","o","t"," ","f","i","n","d"," ","a"," ",
      "v","e","r","s","i","o","n">>

\* IsPackageSpec without the strip(): a blank entry passes as a request
IsPackageSpecUnstripped(p) == p # <<>> /\ ~StartsWith(p, <<"#">>)

\* package_specs: the stripped entries that are neither empty nor comments
IsPackageSpec(p) == Strip(p) # <<>> /\ ~StartsWith(Strip(p), <<"#">>)

RECURSIVE PackageSpecs(_)
PackageSpecs(pkgs) ==
    IF pkgs = <<>> THEN <<>>
    ELSE IF IsPackageSpec(Head(pkgs))
         THEN <<Strip(Head(pkgs))>> \o PackageSpecs(Tail(pkgs))
         ELSE PackageSpecs(Tail(pkgs))

\* the command the resolver runs
ResolveCmd(useUv) == IF useUv THEN "uv pip compile" ELSE "pip freeze"

\* ClassifyBackendError without the lower(): the needles are compared with
\* the error text as written
ClassifyBackendErrorCaseSensitive(stderr) ==
    IF Contains(stderr, NotFoundNeedle) \/ Contains(stderr, NoVersionNeedle)
    THEN Exc("PackageNotFoundError", "Package not found: ", stderr)
    ELSE Exc("DependencyConflictError", "Dependency resolution failed: ", stderr)

\* the except clause for a backend that exited with failure
ClassifyBackendError(stderr) ==
    IF Contains(Lower(stderr), NotFoundNeedle)
       \/ Contains(Lower(stderr), NoVersionNeedle)
    THEN Exc("PackageNotFoundError", "Package not found: ", stderr)
    ELSE Exc("DependencyConflictError", "Dependency resolution failed: ", stderr)

\* the parse loop over the lines of standard output
RECURSIVE ParseLines(_, _)
ParseLines(lines, dependencies) ==
    IF lines = <<>> THEN dependencies
    ELSE LET line  == Head(lines)
             parts == Split(line, <<"=", "=">>)
         IN  IF line # <<>> /\ ~StartsWith(line, <<"#">>) /\ Len(parts) = 2
             THEN ParseLines(Tail(lines),
                             DictSet(dependencies, Strip(parts[1]), Strip(parts[2])))
             ELSE ParseLines(Tail(lines), dependencies)

ParseResolved(stdout) == ParseLines(SplitLines(stdout), <<>>)

\* what one call does, given what the backend subprocess will answer:
\* the exception raised (or none), the mapping returned, the command run
\* ("" when no subprocess was started) and the requirements file written
ResolveDependencies(pkgs, useUv, be) ==
    LET specs == PackageSpecs(pkgs)
    IN  IF specs = <<>>
        THEN [exc |-> Exc("DependencyConflictError", "No dependencies to resolve", <<>>),
              deps |-> <<>>, cmd |-> "", req_file |-> <<>>]
        ELSE IF be.status = "nolaunch"
        THEN [exc |-> Exc("FileNotFoundError", "", <<>>),
              deps |-> <<>>, cmd |-> ResolveCmd(useUv), req_file |-> specs]
        ELSE IF be.status = "failed"
        THEN [exc |-> ClassifyBackendError(be.stderr),
              deps |-> <<>>, cmd |-> ResolveCmd(useUv), req_file |-> specs]
        ELSE [exc |-> NoExc, deps |-> ParseResolved(be.stdout),
              cmd |-> ResolveCmd(useUv), req_file |-> specs]

(***************************************************************************)
(* Directory trees                                                         *)
(***************************************************************************)

\* the empty tree
EmptyTree == <<>> :> "DIR"

IsPrefix(p, q) == Len(p) <= Len(q) /\ SubSeq(q, 1, Len(p)) = p

\* path.exists(), is_dir(), is_file()
PathExists(t, p) == p \in DOMAIN t

IsDir(t, p) == PathExists(t, p) /\ t[p] = "DIR"

IsFile(t, p) == PathExists(t, p) /\ t[p] # "DIR"

\* the regular files of a tree (os.walk's files, rglob("*") filtered by is_file)
FilesOf(t) == {p \in DOMAIN t : t[p] # "DIR"}

\* os.listdir(dir)
ListDir(t, dir) ==
    {p[Len(dir) + 1] : p \in {q \in DOMAIN t : IsPrefix(dir, q) /\ Len(q) = Len(dir) + 1}}

\* shutil.rmtree(p) / Path.unlink(p)
RmTree(t, p) == [q \in {r \in DOMAIN t : ~IsPrefix(p, r)} |-> t[q]]

\* os.makedirs(p, exist_ok=True)
MkDirs(t, p) ==
    LET new == {SubSeq(p, 1, i) : i \in 0..Len(p)} \ DOMAIN t
    IN  [q \in DOMAIN t \cup new |-> IF q \in DOMAIN t THEN t[q] ELSE "DIR"]

\* shutil.copytree / shutil.copy2 of src's entry at sp to dst's path dp:
\* every node under sp is written under dp, replacing what is there
CopyEntry(dst, dp, src, sp) ==
    LET moved == {q \in DOMAIN src : IsPrefix(sp, q)}
        Target(q) == dp \o SubSeq(q, Len(sp) + 1, Len(q))
        new == {Target(q) : q \in moved}
    IN  [r \in DOMAIN dst \cup new |->
            IF r \in new
            THEN src[CHOOSE q \in moved : Target(q) = r]
            ELSE dst[r]]

(***************************************************************************)
(* The world outside the program: what the package index, the output       *)
(* directory and the extra source paths hold                               *)
(***************************************************************************)

\* bytes per megabyte, as the two size checks compute it (1024 * 1024)
MB == 1048576

\* the byte size of each file content
SizeOf(content) ==
    CASE content = "a_init" -> MB
      [] content = "b_py"   -> MB
      [] OTHER              -> 1

\* what installing a package writes below the --target directory, by the
\* package's name (the index compares names case-insensitively)
PkgTree(name) ==
    CASE Lower(name) = <<"a">> ->
            EmptyTree @@ (<<"a">> :> "DIR") @@ (<<"a", "__init__.py">> :> "a_init")
            @@ (<<"a", "tests">> :> "DIR")
            @@ (<<"a", "tests", "test_a.py">> :> "a_test")
      [] Lower(name) = <<"b">> -> EmptyTree @@ (<<"b.py">> :> "b_py")
      [] Lower(name) = <<"c">> ->
            EmptyTree @@ (<<"c">> :> "DIR") @@ (<<"c", "__init__.py">> :> "c_init")
      [] OTHER -> EmptyTree

\* the extra source paths that exist, each under its base name
SourceFS ==
    EmptyTree @@ (<<"mod">> :> "DIR") @@ (<<"mod", "x.py">> :> "m_x")
    @@ (<<"mod", "x_test.py">> :> "m_t")
    @@ (<<"a">> :> "DIR") @@ (<<"a", "h.py">> :> "s_h")
    @@ (<<"f.txt">> :> "s_f")

\* the lists config.include_source is drawn from ("missing" does not exist)
IncludeSourceChoices == {<<>>, <<"missing", "mod">>, <<"a", "f.txt">>}

\* what <output_dir>/packages may hold when the packager is constructed
VendoredTree ==
    EmptyTree @@ (<<"vendored">> :> "DIR") @@ (<<"vendored", "v.py">> :> "v_py")
    @@ (<<"vendored", "testing">> :> "DIR")
    @@ (<<"vendored", "testing", "t.py">> :> "v_t")

OutPackagesChoices == {EmptyTree, VendoredTree}

\* the sizes the written archive may turn out to have (deflate is not modelled)
ZipSizes == {MB, MB + 1, 2 * MB + 1}

\* sum(f.stat().st_size for f in files)
RECURSIVE SumSizes(_, _)
SumSizes(t, files) ==
    IF files = {} THEN 0
    ELSE LET f == CHOOSE x \in files : TRUE
         IN  SizeOf(t[f]) + SumSizes(t, files \ {f})

(***************************************************************************)
(* LayerBuilder                                                            *)
(***************************************************************************)

\* Optional[int]: None is <<>>, a number n is <<n>>
None == <<>>

Some(n) == <<n>>

\* the truth value Python gives an Optional[int] (None and 0 are false)
Truthy(opt) == opt # None /\ opt[1] # 0

\* size_mb > max_size_mb, with size_mb = bytes / (1024 * 1024): the division
\* by a power of two is exact, so the comparison is the one on bytes
ExceedsMb(bytes, maxMb) == bytes > maxMb * MB

\* the site-packages directory create_layer_structure makes
PythonPath == <<"python", "lib", "python3.9", "site-packages">>

\* create_layer_structure(packages_dir): every way the call can end, given the
\* layer directory and the packages directory it finds.  copytree refuses a
\* destination that exists; listdir's order decides what was copied before.
CreateLayerStructure(layerTree, packagesTree) ==
    LET made    == MkDirs(layerTree, PythonPath)
        items   == ListDir(packagesTree, <<>>)
        refused == {i \in items : ~IsFile(packagesTree, <<i>>)
                                  /\ PathExists(made, Append(PythonPath, i))}
        RECURSIVE CopyAll(_, _)
        CopyAll(t, todo) ==
            IF todo = {} THEN t
            ELSE LET i == CHOOSE x \in todo : TRUE
                 IN  CopyAll(CopyEntry(t, Append(PythonPath, i), packagesTree, <<i>>),
                             todo \ {i})
    IN  IF refused = {}
        THEN {[exc |-> NoExc, layer |-> CopyAll(made, items)]}
        ELSE {[exc |-> Exc("FileExistsError", "", <<>>), layer |-> CopyAll(made, before)] :
                before \in SUBSET (items \ refused)}

\* ArchiveEntries with each file stored under its base name
ArchiveEntriesBaseNames(layerTree) ==
    {<<<<f[Len(f)]>>, layerTree[f]>> : f \in FilesOf(layerTree)}

\* the os.walk loop: each regular file is written under its path relative
\* to the layer directory
ArchiveEntries(layerTree) == {<<f, layerTree[f]>> : f \in FilesOf(layerTree)}

\* create_zip(layer_dir, output_path) when the archive written has zsize
\* bytes: the exception or the returned path, the archive it wrote, and the
\* files of the output directory afterwards.  A file is its name (output_path's name pieces), the
\* archive's entries (arcname, content) and its byte size.
CreateZip(layerTree, output_path, maxMb, zsize, out) ==
    LET zip_path == Append(output_path, ".zip")
        archive  == [name |-> zip_path,
                     entries |-> ArchiveEntries(layerTree),
                     size |-> zsize]
        others   == {f \in out : f.name # zip_path}
    IN  IF Truthy(maxMb) /\ ExceedsMb(zsize, maxMb[1])
        THEN [exc |-> Exc("LayerSizeLimitError", "", <<zsize, maxMb[1]>>),
              ret |-> <<>>, out |-> others, wrote |-> archive]
        ELSE [exc |-> NoExc, ret |-> zip_path, out |-> others \cup {archive},
              wrote |-> archive]

(***************************************************************************)
(* LambdaPackager helpers                                                  *)
(***************************************************************************)

\* InstallSpec without the pin: the bare name
InstallSpecUnpinned(name, version) == name

\* the requirement the installer is given: f"{name}=={version}"
InstallSpec(name, version) == name \o <<"=", "=">> \o version

\* download_dir = os.path.join(self.temp_dir, "packages")
DownloadDir == <<"temp_dir", "packages">>

\* _get_direct_dependencies()
GetDirectDependencies == {}

\* ShouldIncludePackage without the exclusion test
ShouldIncludeIgnoringExclusions(cfg, package_name) ==
    cfg.include_dependencies \/ package_name \in GetDirectDependencies

\* _should_include_package(package_name)
ShouldIncludePackage(cfg, package_name) ==
    package_name \notin cfg.exclude_packages
    /\ (cfg.include_dependencies \/ package_name \in GetDirectDependencies)

\* the dict comprehension that filters the resolved mapping
RECURSIVE FilterDeps(_, _)
FilterDeps(cfg, d) ==
    IF d = <<>> THEN <<>>
    ELSE IF ShouldIncludePackage(cfg, Head(d)[1])
         THEN <<Head(d)>> \o FilterDeps(cfg, Tail(d))
         ELSE FilterDeps(cfg, Tail(d))

\* the loop that copies the downloaded top-level entries to the layer root
CopyDownloaded(layerTree, downloaded) ==
    LET RECURSIVE CopyAll(_, _)
        CopyAll(t, todo) ==
            IF todo = {} THEN t
            ELSE LET i == CHOOSE x \in todo : TRUE
                     cleared == IF IsDir(downloaded, <<i>>) /\ PathExists(t, <<i>>)
                                THEN RmTree(t, <<i>>) ELSE t
                 IN  CopyAll(CopyEntry(cleared, <<i>>, downloaded, <<i>>), todo \ {i})
    IN  CopyAll(layerTree, ListDir(downloaded, <<>>))

\* CopySourceFiles with the loop left at the first path that does not exist
RECURSIVE CopySourceFilesUntilMissing(_, _)
CopySourceFilesUntilMissing(layerTree, sources) ==
    IF sources = <<>> \/ ~PathExists(SourceFS, <<Head(sources)>>) THEN layerTree
    ELSE CopySourceFilesUntilMissing(
             CopyEntry(IF PathExists(layerTree, <<Head(sources)>>)
                          /\ IsDir(SourceFS, <<Head(sources)>>)
                       THEN RmTree(layerTree, <<Head(sources)>>) ELSE layerTree,
                       <<Head(sources)>>, SourceFS, <<Head(sources)>>),
             Tail(sources))

\* _copy_source_files(layer_dir)
RECURSIVE CopySourceFiles(_, _)
CopySourceFiles(layerTree, sources) ==
    IF sources = <<>> THEN layerTree
    ELSE LET source_path == <<Head(sources)>>
             dest_path   == <<Head(sources)>>
         IN  IF ~PathExists(SourceFS, source_path)
             THEN CopySourceFiles(layerTree, Tail(sources))
             ELSE IF IsDir(SourceFS, source_path)
             THEN CopySourceFiles(
                      CopyEntry(IF PathExists(layerTree, dest_path)
                                THEN RmTree(layerTree, dest_path) ELSE layerTree,
                                dest_path, SourceFS, source_path),
                      Tail(sources))
             ELSE CopySourceFiles(CopyEntry(layerTree, dest_path, SourceFS, source_path),
                                  Tail(sources))

\* the names the patterns "test_*.py" and "*_test.py" match, among the file
\* names of the modelled world
MatchesTestFilePattern(name) == name \in {"test_a.py", "x_test.py"}

\* the names the patterns "tests/" and "testing/" match
MatchesTestDirPattern(name) == name \in {"tests", "testing"}

\* RemoveTestFiles with glob in place of rglob: only the entries directly
\* under the layer root are matched
RemoveTestFilesTopLevel(cfg, layerTree) ==
    IF ~cfg.strip_test_files THEN layerTree
    ELSE LET matched == {p \in DOMAIN layerTree :
                            /\ Len(p) = 1
                            /\ \/ MatchesTestFilePattern(p[Len(p)])
                               \/ MatchesTestDirPattern(p[Len(p)]) /\ IsDir(layerTree, p)}
         IN  [q \in {r \in DOMAIN layerTree : \A m \in matched : ~IsPrefix(m, r)} |->
                 layerTree[q]]

\* _remove_test_files(layer_dir): every match of rglob is removed, a
\* directory with all it holds
RemoveTestFiles(cfg, layerTree) ==
    IF ~cfg.strip_test_files THEN layerTree
    ELSE LET matched == {p \in DOMAIN layerTree :
                            /\ p # <<>>
                            /\ \/ MatchesTestFilePattern(p[Len(p)])
                               \/ MatchesTestDirPattern(p[Len(p)]) /\ IsDir(layerTree, p)}
         IN  [q \in {r \in DOMAIN layerTree : \A m \in matched : ~IsPrefix(m, r)} |->
                 layerTree[q]]

\* CheckLayerSize with the size in whole megabytes (floor division)
CheckLayerSizeWholeMb(cfg, layerTree) ==
    LET total_size == SumSizes(layerTree, FilesOf(layerTree))
    IN  IF total_size \div MB > cfg.max_size_mb
        THEN Exc("LayerSizeLimitError", "", <<total_size, cfg.max_size_mb>>)
        ELSE NoExc

\* _check_layer_size(layer_dir): the exception it raises, or none
CheckLayerSize(cfg, layerTree) ==
    LET total_size == SumSizes(layerTree, FilesOf(layerTree))
    IN  IF ExceedsMb(total_size, cfg.max_size_mb)
        THEN Exc("LayerSizeLimitError", "", <<total_size, cfg.max_size_mb>>)
        ELSE NoExc

(***************************************************************************)
(* Inputs: request lists, and what the backend subprocess answers          *)
(***************************************************************************)

\* 'a'
ReqA == <<"a">>

\* ' b==2 '
ReqBPinned == <<" ", "b", "=", "=", "2", " ">>

\* 'A>=1'
ReqUpperA == <<"A", ">", "=", "1">>

\* ''
ReqEmpty == <<>>

\* ' \t'
ReqBlank == <<" ", "\t">>

\* '#c'
ReqComment == <<"#", "c">>

\* ' #c'
ReqIndentedComment == <<" ", "#", "c">>

RequestEntries ==
    {ReqA, ReqBPinned, ReqUpperA, ReqEmpty, ReqBlank, ReqComment, ReqIndentedComment}

\* 'a==1\nb==2\n'
OutAB == <<"a", "=", "=", "1", "\n", "b", "=", "=", "2", "\n">>

\* '# x\na==1\n\nc==1\nb==2'
OutHeaderACB == <<"#", " ", "x", "\n", "a", "=", "=", "1", "\n", "\n", "c", "=", "=", "1", "\n", "b", "=", "=", "2">>

\* 'a==1\na==2'
OutDuplicate == <<"a", "=", "=", "1", "\n", "a", "=", "=", "2">>

\* 'a==1==2\nb\n A == 1 '
OutMalformed == <<"a", "=", "=", "1", "=", "=", "2", "\n", "b", "\n", " ", "A", " ", "=", "=", " ", "1", " ">>

\* ''
OutNothing == <<>>

\* 'a==\n'
OutNoVersion == <<"a", "=", "=", "\n">>

\* 'a==1;p<3' (a pin that carries an environment marker)
OutMarker == <<"a", "=", "=", "1", ";", "p", "<", "3">>

StdoutChoices ==
    {OutAB, OutHeaderACB, OutDuplicate, OutMalformed, OutNothing, OutNoVersion,
     OutMarker}

\* 'ERROR: Could not find a version x'
ErrNoVersion == <<"E", "R", "R", "O", "R", ":", " ", "C", "o", "u", "l", "d", " ", "n", "o", "t", " ", "f", "i", "n", "d", " ", "a", " ", "v", "e", "r", "s", "i", "o", "n", " ", "x">>

\* 'Package NOT FOUND'
ErrUpperNotFound == <<"P", "a", "c", "k", "a", "g", "e", " ", "N", "O", "T", " ", "F", "O", "U", "N", "D">>

\* 'cannot found'
ErrInsideWord == <<"c", "a", "n", "n", "o", "t", " ", "f", "o", "u", "n", "d">>

\* 'conflict'
ErrConflict == <<"c", "o", "n", "f", "l", "i", "c", "t">>

\* ''
ErrEmpty == <<>>

\* 'not  found'
ErrTwoSpaces == <<"n", "o", "t", " ", " ", "f", "o", "u", "n", "d">>

\* 'could not find version'
ErrNoArticle == <<"c", "o", "u", "l", "d", " ", "n", "o", "t", " ", "f", "i", "n", "d", " ", "v", "e", "r", "s", "i", "o", "n">>

StderrChoices ==
    {ErrNoVersion,
     ErrUpperNotFound,
     ErrInsideWord,
     ErrConflict,
     ErrEmpty,
     ErrTwoSpaces,
     ErrNoArticle}

\* the longest request list the resolver is called with on its own
MaxReq == 2

\* the number of build calls made on one packager
MaxBuilds == 2

RECURSIVE SeqsUpTo(_, _)
SeqsUpTo(S, n) ==
    IF n = 0 THEN {<<>>}
    ELSE LET shorter == SeqsUpTo(S, n - 1)
         IN  shorter \cup {Append(q, x) : q \in shorter, x \in S}

RequestLists == SeqsUpTo(RequestEntries, MaxReq)

\* how the resolver subprocess can end: exit 0 with some output, a non-zero
\* exit with some error text, or the executable cannot be started
Backends ==
    {[status |-> "ok", stdout |-> o, stderr |-> <<>>] : o \in StdoutChoices}
    \cup {[status |-> "failed", stdout |-> <<>>, stderr |-> e] : e \in StderrChoices}
    \cup {[status |-> "nolaunch", stdout |-> <<>>, stderr |-> <<>>]}

NoBackend == [status |-> "none", stdout |-> <<>>, stderr |-> <<>>]

\* the request lists and backend answers the build pipeline is run with
PipelineRequests == {<<ReqA>>, <<ReqA, ReqBPinned>>, <<ReqComment, ReqBlank>>}

PipelineBackends ==
    {[status |-> "ok", stdout |-> o, stderr |-> <<>>] :
        o \in {OutAB, OutHeaderACB, OutNothing}}
    \cup {[status |-> "failed", stdout |-> <<>>, stderr |-> e] :
            e \in {ErrNoVersion, ErrConflict}}
    \cup {[status |-> "nolaunch", stdout |-> <<>>, stderr |-> <<>>]}

\* the error text of an installer that fails
InstallStderr == <<"n", "o">>

LayerNames == {"lyr"}

\* the configurations a packager is constructed with
ExcludeChoices == {{}, {<<"b">>}}

MaxSizeChoices == {1, 2}

ConfigChoices ==
    [exclude_packages : ExcludeChoices,
     include_source : IncludeSourceChoices,
     optimization_level : {1},
     max_size_mb : MaxSizeChoices,
     compatible_runtimes : {<<"python3.9">>},
     strip_test_files : BOOLEAN,
     include_dependencies : BOOLEAN]

\* an attribute that has not been assigned
Unset == "unset"

\* how subprocess.run(..., check=True) of a probe command can end: exit 0,
\* a non-zero exit (CalledProcessError), no such executable
\* (FileNotFoundError), or another error of the launch (PermissionError,
\* "Exec format error")
RunOutcomes == {"ok", "exit_nonzero", "not_found", "os_error"}

\* the path "which uv" prints
FoundUvPath == <<"found_uv">>

\* the except clause of the probe: the fallback, or the exception it lets pass
ProbeFailed(how, ran, path) ==
    IF how \in {"exit_nonzero", "not_found"}
    THEN [use_uv |-> FALSE, uv_path |-> <<>>, exc |-> NoExc, io |-> ran]
    ELSE [use_uv |-> Unset, uv_path |-> path,
          exc |-> Exc("OSError", "", <<>>), io |-> ran]

\* self.use_uv = self._check_uv_available(), for the uv_path given to the
\* constructor (<<>> is None) and the way each probe command ends: use_uv and
\* uv_path afterwards, the exception that leaves the constructor, and the
\* subprocesses run
CheckUvAvailable(given, which, version) ==
    IF given # <<>>
    THEN IF version = "ok"
         THEN [use_uv |-> TRUE, uv_path |-> given, exc |-> NoExc,
               io |-> <<"uv --version">>]
         ELSE ProbeFailed(version, <<"uv --version">>, given)
    ELSE IF which # "ok"
    THEN ProbeFailed(which, <<"which uv">>, <<>>)
    ELSE IF version = "ok"
         THEN [use_uv |-> TRUE, uv_path |-> FoundUvPath, exc |-> NoExc,
               io |-> <<"which uv", "uv --version">>]
         ELSE ProbeFailed(version, <<"which uv", "uv --version">>, FoundUvPath)

\* every way DependencyManager() can go
ProbeRuns(given) == {CheckUvAvailable(given, w, v) : w \in RunOutcomes, v \in RunOutcomes}

\* how the probe of a DependencyManager() that returned has gone: the
\* subprocesses it ran and the use_uv and uv_path it ended with
ProbeOutcomes == {o \in ProbeRuns(<<>>) : o.exc = NoExc}

\* the I/O DependencyManager() performs: the scratch directory, then the probe
ManagerIO(probe) == <<"mkdtemp">> \o probe.io

\* the I/O a LambdaPackager constructor that returns has performed
ConstructedIO(probe) == Append(ManagerIO(probe), "mkdir output_dir")

(***************************************************************************)
(* State                                                                   *)
(***************************************************************************)
VARIABLES
    config,          \* LambdaPackager.config
    use_uv,          \* DependencyManager.use_uv
    lb_max_size_mb,  \* LayerBuilder.max_size_mb
    outPackages,     \* the tree <output_dir>/packages
    dl,              \* the tree <temp_dir>/packages (the download directory)
    layer,           \* the tree <output_dir>/layer
    outFiles,        \* the archive files in <output_dir>
    pc,              \* where the current call is
    packages,        \* the request list of the current call
    layer_name,      \* the layer name of the current call
    backend,         \* what the resolver subprocess answered in this call
    resolved,        \* what resolve_dependencies did in this call
    resolveCalls,    \* resolver subprocesses started in this call
    included_deps,   \* the filtered mapping
    installLog,      \* the installer invocations of this call, in order
    raised,          \* the exception raised inside the try block
    callerError,     \* the exception that left create_layer_from_packages
    result,          \* the path create_layer_from_packages returned
    stages,          \* the stages this call has executed, in order
    zipRet,          \* what create_zip did in this call
    zipCalls,        \* how often create_zip was invoked in this call
    builds,          \* calls started so far
    runtime,         \* LambdaPackager.runtime
    ctor_args,       \* the arguments the constructor was called with
    io,              \* the I/O performed by the constructors, in order
    requirements,    \* the requirements file of the call: None, or Some(text)
    uv_path,         \* DependencyManager.uv_path: None, or the path
    temp_dir,        \* whether the directory DependencyManager.temp_dir exists
    dm_alive,        \* the DependencyManager has been created and not yet destroyed
    probed,          \* how the probe commands of the constructor ended
    cleanupLog       \* what each cleanup() so far did, in order

vars == <<config, use_uv, lb_max_size_mb, outPackages, dl, layer, outFiles, pc,
          packages, layer_name, backend, resolved, resolveCalls, included_deps,
          installLog, raised, callerError, result, stages, zipRet, zipCalls,
          builds, runtime, ctor_args, io, requirements, uv_path, temp_dir,
          dm_alive, probed, cleanupLog>>

worldVars ==
    <<config, use_uv, lb_max_size_mb, outPackages, runtime, ctor_args, io,
      requirements, uv_path, temp_dir, dm_alive, probed, cleanupLog>>

NoResolve == [exc |-> NoExc, deps |-> <<>>, cmd |-> "", req_file |-> <<>>]

NoArchive == [name |-> <<>>, entries |-> {}, size |-> 0]

NoZip == [exc |-> NoExc, ret |-> <<>>, out |-> {}, wrote |-> NoArchive]

\* the per-call state before the first call
NoCallState ==
    /\ packages = <<>>
    /\ layer_name = ""
    /\ backend = NoBackend
    /\ resolved = NoResolve
    /\ resolveCalls = 0
    /\ included_deps = <<>>
    /\ installLog = <<>>
    /\ raised = NoExc
    /\ callerError = NoExc
    /\ result = <<>>
    /\ stages = <<>>
    /\ zipRet = NoZip
    /\ zipCalls = 0
    /\ builds = 0

NoCallYet == pc = "idle" /\ NoCallState

\* LambdaPackagerConfig()
DefaultConfig ==
    [exclude_packages |-> {}, include_source |-> <<>>, optimization_level |-> 1,
     max_size_mb |-> 250, compatible_runtimes |-> <<"python3.9">>,
     strip_test_files |-> TRUE, include_dependencies |-> TRUE]

\* the probe commands are not on record
NoProbe == [which |-> "none", version |-> "none"]

\* no packager was constructed
NoCtorArgs == [runtime |-> Unset, config |-> None]

\* LambdaPackager(runtime, output_dir, config) has returned: the managers are
\* built, the layer builder has the configuration's ceiling
Init ==
    /\ config \in ConfigChoices
    /\ use_uv \in BOOLEAN
    /\ lb_max_size_mb = Some(config.max_size_mb)
    /\ outPackages \in OutPackagesChoices
    /\ dl = EmptyTree
    /\ layer = EmptyTree
    /\ outFiles = {}
    /\ runtime = "python3.9"
    /\ ctor_args = [runtime |-> runtime, config |-> Some(config)]
    /\ \E probe \in ProbeOutcomes :
          /\ probe.use_uv = use_uv
          /\ io = ConstructedIO(probe)
          /\ uv_path = probe.uv_path
    /\ temp_dir = "present"
    /\ dm_alive = TRUE
    /\ requirements = None
    /\ probed = NoProbe
    /\ cleanupLog = <<>>
    /\ NoCallYet

(***************************************************************************)
(* LambdaPackager.create_layer_from_packages, stage by stage               *)
(***************************************************************************)

\* NextStage with the size check moved before the test stripping
NextStageSizeFirst(stage) ==
    CASE stage = "resolve"    -> "filter"
      [] stage = "filter"     -> "fetch"
      [] stage = "fetch"      -> "assemble"
      [] stage = "assemble"   -> "embed"
      [] stage = "embed"      -> "size_check"
      [] stage = "size_check" -> "strip"
      [] stage = "strip"      -> "archive"
      [] stage = "archive"    -> "done"

\* the statement order of the try block
NextStage(stage) ==
    CASE stage = "resolve"    -> "filter"
      [] stage = "filter"     -> "fetch"
      [] stage = "fetch"      -> "assemble"
      [] stage = "assemble"   -> "embed"
      [] stage = "embed"      -> "strip"
      [] stage = "strip"      -> "size_check"
      [] stage = "size_check" -> "archive"
      [] stage = "archive"    -> "done"

\* where an exception raised by a stage takes control: the except clause
OnError(stage) == "except"

\* ReRaise that wraps the exception in the package's base error
ReRaiseWrapped(exc) == Exc("LambdaBundlerError", "Failed to create layer: ", exc.text)

\* what the except clause raises to the caller: the bare raise re-raises
ReRaise(exc) == exc

\* the call is made: the log line and the mkdir of <output_dir>/packages
StartBuild ==
    /\ pc \in {"idle", "done", "failed"}
    /\ dm_alive
    /\ builds < MaxBuilds
    /\ \E pk \in PipelineRequests, ln \in LayerNames :
          /\ packages' = pk
          /\ layer_name' = ln
    /\ builds' = builds + 1
    /\ pc' = "resolve"
    /\ backend' = NoBackend
    /\ resolved' = NoResolve
    /\ resolveCalls' = 0
    /\ included_deps' = <<>>
    /\ installLog' = <<>>
    /\ raised' = NoExc
    /\ callerError' = NoExc
    /\ result' = <<>>
    /\ stages' = <<>>
    /\ zipRet' = NoZip
    /\ zipCalls' = 0
    /\ UNCHANGED <<worldVars, dl, layer, outFiles>>

\* a stage raised
Raise(stage, exc) ==
    /\ raised' = exc
    /\ stages' = Append(stages, stage)
    /\ pc' = OnError(stage)

\* a stage completed
Advance(stage) ==
    /\ raised' = raised
    /\ stages' = Append(stages, stage)
    /\ pc' = NextStage(stage)

\* deps = self.dependency_manager.resolve_dependencies(packages)
Resolve ==
    /\ pc = "resolve"
    /\ \E be \in PipelineBackends :
          LET r == ResolveDependencies(packages, use_uv, be)
          IN  /\ backend' = IF r.cmd = "" THEN NoBackend ELSE be
              /\ resolveCalls' = IF r.cmd = "" THEN resolveCalls ELSE resolveCalls + 1
              /\ resolved' = r
              /\ IF r.exc # NoExc
                 THEN Raise("resolve", r.exc)
                 ELSE Advance("resolve")
    /\ UNCHANGED <<worldVars, dl, layer, outFiles, packages, layer_name,
                   included_deps, installLog, callerError, result, zipRet,
                   zipCalls, builds>>

\* included_deps = {name: version ... if self._should_include_package(name)}
Filter ==
    /\ pc = "filter"
    /\ included_deps' = FilterDeps(config, resolved.deps)
    /\ Advance("filter")
    /\ UNCHANGED <<worldVars, dl, layer, outFiles, packages, layer_name, backend,
                   resolved, resolveCalls, installLog, callerError, result,
                   zipRet, zipCalls, builds>>

\* download_packages: one installer subprocess for the next package; it
\* installs the package below the download directory, or exits with failure
FetchInstall ==
    /\ pc = "fetch"
    /\ Len(installLog) < Len(included_deps)
    /\ LET item == included_deps[Len(installLog) + 1]
       IN  \E ok \in BOOLEAN :
              /\ installLog' = Append(installLog,
                                      [name |-> item[1], version |-> item[2],
                                       requirement |-> InstallSpec(item[1], item[2]),
                                       target |-> DownloadDir, ok |-> ok])
              /\ IF ok
                 THEN /\ dl' = PkgTree(item[1]) @@ dl
                      /\ UNCHANGED <<raised, stages, pc>>
                 ELSE /\ dl' = dl
                      /\ Raise("fetch",
                               Exc("DependencyConflictError",
                                   "Failed to download packages: ", InstallStderr))
    /\ UNCHANGED <<worldVars, layer, outFiles, packages, layer_name, backend,
                   resolved, resolveCalls, included_deps, callerError, result,
                   zipRet, zipCalls, builds>>

\* download_packages returns the download directory, which exists
FetchReturn ==
    /\ pc = "fetch"
    /\ Len(installLog) = Len(included_deps)
    /\ Advance("fetch")
    /\ UNCHANGED <<worldVars, dl, layer, outFiles, packages, layer_name, backend,
                   resolved, resolveCalls, included_deps, installLog, callerError,
                   result, zipRet, zipCalls, builds>>

\* create_layer_structure(packages_dir), then the loop copying the downloaded
\* entries to the layer directory
Assemble ==
    /\ pc = "assemble"
    /\ \E made \in CreateLayerStructure(layer, outPackages) :
          IF made.exc # NoExc
          THEN /\ layer' = made.layer
               /\ Raise("assemble", made.exc)
          ELSE /\ layer' = CopyDownloaded(made.layer, dl)
               /\ Advance("assemble")
    /\ UNCHANGED <<worldVars, dl, outFiles, packages, layer_name, backend,
                   resolved, resolveCalls, included_deps, installLog, callerError,
                   result, zipRet, zipCalls, builds>>

\* self._copy_source_files(layer_dir)
EmbedSources ==
    /\ pc = "embed"
    /\ layer' = CopySourceFiles(layer, config.include_source)
    /\ Advance("embed")
    /\ UNCHANGED <<worldVars, dl, outFiles, packages, layer_name, backend,
                   resolved, resolveCalls, included_deps, installLog, callerError,
                   result, zipRet, zipCalls, builds>>

\* if self.config.strip_test_files: self._remove_test_files(layer_dir)
StripTests ==
    /\ pc = "strip"
    /\ layer' = RemoveTestFiles(config, layer)
    /\ Advance("strip")
    /\ UNCHANGED <<worldVars, dl, outFiles, packages, layer_name, backend,
                   resolved, resolveCalls, included_deps, installLog, callerError,
                   result, zipRet, zipCalls, builds>>

\* self._check_layer_size(layer_dir)
SizeCheck ==
    /\ pc = "size_check"
    /\ LET exc == CheckLayerSize(config, layer)
       IN  IF exc # NoExc
           THEN Raise("size_check", exc)
           ELSE Advance("size_check")
    /\ UNCHANGED <<worldVars, dl, layer, outFiles, packages, layer_name, backend,
                   resolved, resolveCalls, included_deps, installLog, callerError,
                   result, zipRet, zipCalls, builds>>

\* zip_path = str(self.output_dir / f"{layer_name}.zip")
ZipPath(name) == <<name, ".zip">>

\* self.layer_builder.create_zip(str(layer_dir), zip_path); return Path(zip_path)
Archive ==
    /\ pc = "archive"
    /\ \E zsize \in ZipSizes :
          LET z == CreateZip(layer, ZipPath(layer_name), lb_max_size_mb, zsize, outFiles)
          IN  /\ zipRet' = z
              /\ zipCalls' = zipCalls + 1
              /\ outFiles' = z.out
              /\ IF z.exc # NoExc
                 THEN /\ Raise("archive", z.exc)
                      /\ result' = result
                 ELSE /\ Advance("archive")
                      /\ result' = ZipPath(layer_name)
    /\ UNCHANGED <<worldVars, dl, layer, packages, layer_name, backend, resolved,
                   resolveCalls, included_deps, installLog, callerError, builds>>

\* except Exception as e: logger.error(...); raise
Except ==
    /\ pc = "except"
    /\ callerError' = ReRaise(raised)
    /\ pc' = "failed"
    /\ UNCHANGED <<worldVars, dl, layer, outFiles, packages, layer_name, backend,
                   resolved, resolveCalls, included_deps, installLog, raised,
                   result, stages, zipRet, zipCalls, builds>>

Next ==
    \/ StartBuild
    \/ Resolve
    \/ Filter
    \/ FetchInstall
    \/ FetchReturn
    \/ Assemble
    \/ EmbedSources
    \/ StripTests
    \/ SizeCheck
    \/ Archive
    \/ Except

Spec == Init /\ [][Next]_vars

(***************************************************************************)
(* resolve_dependencies called on its own                                  *)
(***************************************************************************)

InitResolve ==
    /\ config = DefaultConfig
    /\ use_uv \in BOOLEAN
    /\ lb_max_size_mb = Some(config.max_size_mb)
    /\ outPackages = EmptyTree
    /\ dl = EmptyTree
    /\ layer = EmptyTree
    /\ outFiles = {}
    /\ runtime = Unset
    /\ ctor_args = NoCtorArgs
    /\ \E probe \in ProbeOutcomes :
          /\ probe.use_uv = use_uv
          /\ io = ManagerIO(probe)
          /\ uv_path = probe.uv_path
    /\ temp_dir = "present"
    /\ dm_alive = TRUE
    /\ requirements = None
    /\ probed = NoProbe
    /\ cleanupLog = <<>>
    /\ NoCallYet

\* dm.resolve_dependencies(packages) from call to return or raise
ResolveCall ==
    /\ pc = "idle"
    /\ \E pk \in RequestLists, be \in Backends :
          LET r == ResolveDependencies(pk, use_uv, be)
          IN  /\ packages' = pk
              /\ backend' = IF r.cmd = "" THEN NoBackend ELSE be
              /\ resolveCalls' = IF r.cmd = "" THEN 0 ELSE 1
              /\ resolved' = r
              /\ raised' = r.exc
    /\ pc' = "resolve_returned"
    /\ builds' = builds + 1
    /\ UNCHANGED <<worldVars, dl, layer, outFiles, layer_name, included_deps,
                   installLog, callerError, result, stages, zipRet, zipCalls>>

NextResolve == ResolveCall

SpecResolve == InitResolve /\ [][NextResolve]_vars

(***************************************************************************)
(* create_zip called on its own                                            *)
(***************************************************************************)

\* the ceilings a LayerBuilder is constructed with
CeilingChoices == {None, Some(0), Some(1), Some(2)}

\* the output paths create_zip is given (without the extension)
OutputPathChoices == {<<"lyr">>, <<"test_layer">>}

\* the layer directories create_zip is given
LayerDirChoices ==
    {MkDirs(EmptyTree, PythonPath), PkgTree(<<"a">>), PkgTree(<<"b">>) @@ PkgTree(<<"c">>)}

InitZip ==
    /\ config = DefaultConfig
    /\ use_uv = FALSE
    /\ lb_max_size_mb \in CeilingChoices
    /\ outPackages = EmptyTree
    /\ dl = EmptyTree
    /\ layer \in LayerDirChoices
    /\ outFiles = {}
    /\ runtime = Unset
    /\ ctor_args = NoCtorArgs
    /\ io = <<>>
    /\ uv_path = None
    /\ temp_dir = "absent"
    /\ dm_alive = FALSE
    /\ requirements = None
    /\ probed = NoProbe
    /\ cleanupLog = <<>>
    /\ NoCallYet

\* builder.create_zip(layer_dir, output_path) from call to return or raise
CreateZipCall ==
    /\ pc \in {"idle", "zip_returned"}
    /\ builds < MaxBuilds
    /\ \E output_path \in OutputPathChoices, zsize \in ZipSizes :
          LET z == CreateZip(layer, output_path, lb_max_size_mb, zsize, outFiles)
          IN  /\ layer_name' = output_path[1]
              /\ zipRet' = z
              /\ outFiles' = z.out
              /\ raised' = z.exc
    /\ zipCalls' = 1
    /\ pc' = "zip_returned"
    /\ builds' = builds + 1
    /\ UNCHANGED <<worldVars, dl, layer, packages, backend, resolved, resolveCalls,
                   included_deps, installLog, callerError, result, stages>>

NextZip == CreateZipCall

SpecZip == InitZip /\ [][NextZip]_vars

(***************************************************************************)
(* LambdaPackager(runtime, output_dir, config), statement by statement     *)
(***************************************************************************)

\* valid_runtimes in _validate_config
ValidRuntimes == {"python3.7", "python3.8", "python3.9", "python3.10", "python3.11"}

\* set(a list)
ListSet(l) == {l[i] : i \in 1..Len(l)}

\* ValidateConfig without the test of the size ceiling
ValidateConfigNoCeilingTest(c) ==
    IF ~(0 <= c.optimization_level /\ c.optimization_level <= 2)
    THEN Exc("ConfigurationError", "Invalid optimization level. Must be 0, 1, or 2",
             <<"optimization_level">>)
    ELSE IF ListSet(c.compatible_runtimes) \ ValidRuntimes # {}
    THEN Exc("ConfigurationError", "Invalid runtimes: ", <<"compatible_runtimes">>)
    ELSE NoExc

\* _validate_config(): the ConfigurationError raised (its text field holds
\* the config_key), or none
ValidateConfig(c) ==
    IF ~(0 <= c.optimization_level /\ c.optimization_level <= 2)
    THEN Exc("ConfigurationError", "Invalid optimization level. Must be 0, 1, or 2",
             <<"optimization_level">>)
    ELSE IF c.max_size_mb <= 0
    THEN Exc("ConfigurationError", "Maximum size must be positive", <<"max_size_mb">>)
    ELSE IF ListSet(c.compatible_runtimes) \ ValidRuntimes # {}
    THEN Exc("ConfigurationError", "Invalid runtimes: ", <<"compatible_runtimes">>)
    ELSE NoExc

\* RuntimeCompatible against the supported runtimes instead of the configured
RuntimeSupported(rt, c) == rt \in ValidRuntimes

\* self.runtime in self.config.compatible_runtimes
RuntimeCompatible(rt, c) == rt \in ListSet(c.compatible_runtimes)

\* CtorNextStep with the managers built before the configuration
CtorNextStepManagersFirst(step) ==
    CASE step = "ctor_start"   -> "ctor_manager"
      [] step = "ctor_manager" -> "ctor_config"
      [] step = "ctor_config"  -> "ctor_builder"
      [] step = "ctor_builder" -> "ctor_runtime"
      [] step = "ctor_runtime" -> "ctor_mkdir"
      [] step = "ctor_mkdir"   -> "idle"

\* the statement order of __init__
CtorNextStep(step) ==
    CASE step = "ctor_start"   -> "ctor_config"
      [] step = "ctor_config"  -> "ctor_manager"
      [] step = "ctor_manager" -> "ctor_builder"
      [] step = "ctor_builder" -> "ctor_runtime"
      [] step = "ctor_runtime" -> "ctor_mkdir"
      [] step = "ctor_mkdir"   -> "idle"

\* the values the constructor is called with
RuntimeChoices == {"python3.9", "python3.11", "python2.7"}

OptimizationChoices == {-1, 0, 2, 3, 5}

CeilingArgChoices == {-1, 0, 1, 250}

CompatibleChoices ==
    {<<>>, <<"python3.9">>, <<"python3.9", "python3.11">>,
     <<"python3.9", "python2.7">>, <<"python3.12">>}

CtorConfigChoices ==
    [exclude_packages : {{}},
     include_source : {<<>>},
     optimization_level : OptimizationChoices,
     max_size_mb : CeilingArgChoices,
     compatible_runtimes : CompatibleChoices,
     strip_test_files : {TRUE},
     include_dependencies : {TRUE}]

CtorArgChoices ==
    [runtime : RuntimeChoices,
     config : {None} \cup {Some(c) : c \in CtorConfigChoices}]

InitConstruct ==
    /\ ctor_args \in CtorArgChoices
    /\ pc = "ctor_start"
    /\ runtime = Unset
    /\ config = Unset
    /\ use_uv = Unset
    /\ lb_max_size_mb = Unset
    /\ io = <<>>
    /\ uv_path = Unset
    /\ temp_dir = "absent"
    /\ dm_alive = FALSE
    /\ outPackages = EmptyTree
    /\ dl = EmptyTree
    /\ layer = EmptyTree
    /\ outFiles = {}
    /\ requirements = None
    /\ probed = NoProbe
    /\ cleanupLog = <<>>
    /\ NoCallState

\* what every constructor step leaves alone
ctorFrame ==
    <<outPackages, dl, layer, outFiles, packages, layer_name, backend, resolved,
      resolveCalls, included_deps, installLog, result, stages, zipRet, zipCalls,
      builds, ctor_args, requirements>>

managerVars == <<use_uv, uv_path, temp_dir, dm_alive, probed, cleanupLog>>

\* self.runtime = runtime; self.output_dir = Path(output_dir)
CtorStart ==
    /\ pc = "ctor_start"
    /\ runtime' = ctor_args.runtime
    /\ pc' = CtorNextStep("ctor_start")
    /\ UNCHANGED <<ctorFrame, managerVars, config, lb_max_size_mb, io, raised,
                   callerError>>

\* self.config = LambdaPackagerConfig(**config) if config else LambdaPackagerConfig()
CtorConfig ==
    /\ pc = "ctor_config"
    /\ LET c   == IF ctor_args.config = None THEN DefaultConfig ELSE ctor_args.config[1]
           exc == ValidateConfig(c)
       IN  IF exc # NoExc
           THEN /\ raised' = exc
                /\ callerError' = exc
                /\ config' = config
                /\ pc' = "ctor_failed"
           ELSE /\ config' = c
                /\ pc' = CtorNextStep("ctor_config")
                /\ UNCHANGED <<raised, callerError>>
    /\ UNCHANGED <<ctorFrame, managerVars, runtime, lb_max_size_mb, io>>

\* self.dependency_manager = DependencyManager()
CtorManager ==
    /\ pc = "ctor_manager"
    /\ \E run \in ProbeRuns(None) :
          /\ use_uv' = run.use_uv
          /\ uv_path' = run.uv_path
          /\ io' = io \o ManagerIO(run)
          /\ IF run.exc # NoExc
             THEN /\ raised' = run.exc
                  /\ callerError' = run.exc
                  /\ pc' = "ctor_failed"
             ELSE /\ pc' = CtorNextStep("ctor_manager")
                  /\ UNCHANGED <<raised, callerError>>
    /\ temp_dir' = "present"
    /\ dm_alive' = TRUE
    /\ UNCHANGED <<probed, cleanupLog>>
    /\ UNCHANGED <<ctorFrame, runtime, config, lb_max_size_mb>>

\* self.layer_builder = LayerBuilder(max_size_mb=self.config.max_size_mb)
CtorBuilder ==
    /\ pc = "ctor_builder"
    /\ lb_max_size_mb' = Some(config.max_size_mb)
    /\ pc' = CtorNextStep("ctor_builder")
    /\ UNCHANGED <<ctorFrame, managerVars, runtime, config, io, raised, callerError>>

\* if self.runtime not in self.config.compatible_runtimes: raise
CtorRuntime ==
    /\ pc = "ctor_runtime"
    /\ IF RuntimeCompatible(runtime, config)
       THEN /\ pc' = CtorNextStep("ctor_runtime")
            /\ UNCHANGED <<raised, callerError>>
       ELSE /\ raised' = Exc("IncompatibleRuntimeError", "current_package", <<runtime>>)
            /\ callerError' = raised'
            /\ pc' = "ctor_failed"
    /\ UNCHANGED <<ctorFrame, managerVars, runtime, config, lb_max_size_mb, io>>

\* self.output_dir.mkdir(parents=True, exist_ok=True); the constructor returns
CtorMkdir ==
    /\ pc = "ctor_mkdir"
    /\ io' = Append(io, "mkdir output_dir")
    /\ pc' = CtorNextStep("ctor_mkdir")
    /\ UNCHANGED <<ctorFrame, managerVars, runtime, config, lb_max_size_mb, raised,
                   callerError>>

NextConstruct ==
    \/ CtorStart
    \/ CtorConfig
    \/ CtorManager
    \/ CtorBuilder
    \/ CtorRuntime
    \/ CtorMkdir

SpecConstruct == InitConstruct /\ [][NextConstruct]_vars

(***************************************************************************)
(* LambdaPackager.create_layer_from_requirements, up to the call of        *)
(* create_layer_from_packages                                              *)
(***************************************************************************)

\* the list comprehension over the lines of the open file: a line is kept,
\* stripped, when it is not blank and does not start with "#"
RECURSIVE RequirementLines(_)
RequirementLines(lines) ==
    IF lines = <<>> THEN <<>>
    ELSE IF Strip(Head(lines)) # <<>> /\ ~StartsWith(Head(lines), <<"#">>)
         THEN <<Strip(Head(lines))>> \o RequirementLines(Tail(lines))
         ELSE RequirementLines(Tail(lines))

\* iterating a text file yields its lines, each with its line end (which
\* strip() removes and startswith("#") does not look at)
FileLines(text) == SplitLines(text)

\* 'a #c'
LineInlineComment == <<"a", " ", "#", "c">>

\* the lines a requirements file is made of
LineChoices ==
    {ReqA, ReqBPinned, ReqEmpty, ReqBlank, ReqComment, ReqIndentedComment,
     LineInlineComment}

\* the most lines of a requirements file
MaxLines == 2

RECURSIVE JoinLines(_)
JoinLines(lines) ==
    IF lines = <<>> THEN <<>> ELSE Head(lines) \o <<"\n">> \o JoinLines(Tail(lines))

\* the requirements files: a file of up to MaxLines lines, or no file
RequirementsChoices ==
    {None} \cup {Some(JoinLines(ls)) : ls \in SeqsUpTo(LineChoices, MaxLines)}

InitRequirements ==
    /\ config \in {c \in ConfigChoices :
                      /\ c.include_source = <<>>
                      /\ c.exclude_packages = {}
                      /\ c.max_size_mb = 1}
    /\ use_uv = FALSE
    /\ lb_max_size_mb = Some(config.max_size_mb)
    /\ outPackages = EmptyTree
    /\ dl = EmptyTree
    /\ layer = EmptyTree
    /\ outFiles = {}
    /\ runtime = "python3.9"
    /\ ctor_args = [runtime |-> runtime, config |-> Some(config)]
    /\ io = ConstructedIO([use_uv |-> FALSE, io |-> <<"which uv">>])
    /\ uv_path = None
    /\ temp_dir = "present"
    /\ dm_alive = TRUE
    /\ requirements \in RequirementsChoices
    /\ probed = NoProbe
    /\ cleanupLog = <<>>
    /\ NoCallYet

\* create_layer_from_requirements(requirements_path, layer_name) up to its
\* last statement: FileNotFoundError, or the call of
\* create_layer_from_packages with the packages read
ReadRequirements ==
    /\ pc = "idle"
    /\ builds' = builds + 1
    /\ layer_name' = "lyr"
    /\ IF requirements = None
       THEN /\ raised' = Exc("FileNotFoundError", "Requirements file not found: ", <<>>)
            /\ callerError' = raised'
            /\ pc' = "failed"
            /\ packages' = packages
       ELSE /\ packages' = RequirementLines(FileLines(requirements[1]))
            /\ pc' = "resolve"
            /\ UNCHANGED <<raised, callerError>>
    /\ UNCHANGED <<worldVars, dl, layer, outFiles, backend, resolved, resolveCalls,
                   included_deps, installLog, result, stages, zipRet, zipCalls>>

NextRequirements == ReadRequirements

SpecRequirements == InitRequirements /\ [][NextRequirements]_vars

(***************************************************************************)
(* A DependencyManager on its own: construction, downloads, cleanup and    *)
(* destruction                                                             *)
(***************************************************************************)

\* the uv_path the constructor is given
GivenUvPath == <<"given_uv">>

UvPathChoices == {None, GivenUvPath}

\* Cleanup without the try/except around rmtree
CleanupUnguarded(dir) ==
    IF dir = "present"
    THEN [temp_dir |-> "absent", exc |-> NoExc, level |-> "debug"]
    ELSE [temp_dir |-> "absent", exc |-> Exc("FileNotFoundError", "", <<>>),
          level |-> "none"]

\* cleanup(): rmtree removes the directory; when there is none it raises,
\* and the except clause logs a warning
Cleanup(dir) ==
    IF dir = "present"
    THEN [temp_dir |-> "absent", exc |-> NoExc, level |-> "debug"]
    ELSE [temp_dir |-> "absent", exc |-> NoExc, level |-> "warning"]

\* __del__ without its call of cleanup()
DelWithoutCleanup(dir) == [temp_dir |-> dir, exc |-> NoExc, level |-> "none"]

\* __del__(): calls cleanup()
Del(dir) == Cleanup(dir)

InitManager ==
    /\ ctor_args = [uv_path |-> None] \/ ctor_args = [uv_path |-> GivenUvPath]
    /\ pc = "dm_new"
    /\ config = DefaultConfig
    /\ use_uv = Unset
    /\ uv_path = Unset
    /\ lb_max_size_mb = None
    /\ runtime = Unset
    /\ io = <<>>
    /\ temp_dir = "absent"
    /\ dm_alive = FALSE
    /\ outPackages = EmptyTree
    /\ dl = EmptyTree
    /\ layer = EmptyTree
    /\ outFiles = {}
    /\ requirements = None
    /\ probed = NoProbe
    /\ cleanupLog = <<>>
    /\ NoCallState

\* what no action on a DependencyManager touches
managerFrame ==
    <<config, lb_max_size_mb, outPackages, runtime, ctor_args, requirements, layer,
      outFiles, packages, layer_name, backend, resolved, resolveCalls,
      included_deps, callerError, result, stages, zipRet, zipCalls>>

\* DependencyManager(uv_path): mkdtemp, then the probe
ManagerInit ==
    /\ pc = "dm_new"
    /\ \E w \in RunOutcomes, v \in RunOutcomes :
          LET run == CheckUvAvailable(ctor_args.uv_path, w, v)
          IN  /\ probed' = [which |-> IF ctor_args.uv_path = None THEN w ELSE "none",
                           version |-> IF ctor_args.uv_path = None /\ w # "ok"
                                       THEN "none" ELSE v]
              /\ use_uv' = run.use_uv
              /\ uv_path' = run.uv_path
              /\ io' = ManagerIO(run)
              /\ raised' = run.exc
              /\ pc' = IF run.exc # NoExc THEN "dm_ctor_failed" ELSE "dm_ready"
    /\ temp_dir' = "present"
    /\ dm_alive' = TRUE
    /\ UNCHANGED <<managerFrame, dl, installLog, cleanupLog, builds>>

\* download_packages({name: version}) that succeeds
ManagerDownload ==
    /\ pc = "dm_ready"
    /\ temp_dir = "present"
    /\ Len(installLog) < MaxBuilds
    /\ \E name \in {<<"a">>, <<"b">>} :
          /\ dl' = PkgTree(name) @@ dl
          /\ installLog' = Append(installLog,
                                  [name |-> name, version |-> <<"1">>,
                                   requirement |-> InstallSpec(name, <<"1">>),
                                   target |-> DownloadDir, ok |-> TRUE])
    /\ UNCHANGED <<managerFrame, use_uv, uv_path, io, temp_dir, dm_alive, probed,
                   cleanupLog, raised, pc, builds>>

\* dm.cleanup(), called by the owner
ManagerCleanup ==
    /\ pc = "dm_ready"
    /\ builds < MaxBuilds
    /\ builds' = builds + 1
    /\ LET c == Cleanup(temp_dir)
       IN  /\ temp_dir' = c.temp_dir
           /\ cleanupLog' = Append(cleanupLog, [exc |-> c.exc, level |-> c.level])
    /\ dl' = EmptyTree
    /\ UNCHANGED <<managerFrame, use_uv, uv_path, io, dm_alive, probed, installLog,
                   raised, pc>>

\* __del__: the object is destroyed, also one whose constructor raised
ManagerDel ==
    /\ pc \in {"dm_ready", "dm_ctor_failed"}
    /\ pc' = "dm_gone"
    /\ dm_alive' = FALSE
    /\ LET c == Del(temp_dir)
       IN  /\ temp_dir' = c.temp_dir
           /\ cleanupLog' = Append(cleanupLog, [exc |-> c.exc, level |-> c.level])
    /\ dl' = EmptyTree
    /\ UNCHANGED <<managerFrame, use_uv, uv_path, io, probed, installLog, raised,
                   builds>>

NextManager ==
    \/ ManagerInit
    \/ ManagerDownload
    \/ ManagerCleanup
    \/ ManagerDel

SpecManager == InitManager /\ [][NextManager]_vars

(***************************************************************************)
(* The packager's lifetime: builds, then the packager is dropped and its   *)
(* DependencyManager is destroyed with it                                  *)
(***************************************************************************)
\* the LambdaPackager goes away between or after build calls; __del__ of the
\* DependencyManager it holds runs
Teardown ==
    /\ pc \in {"idle", "done", "failed"}
    /\ dm_alive
    /\ dm_alive' = FALSE
    /\ LET c == Del(temp_dir)
       IN  /\ temp_dir' = c.temp_dir
           /\ cleanupLog' = Append(cleanupLog, [exc |-> c.exc, level |-> c.level])
           /\ dl' = IF c.temp_dir = "absent" THEN EmptyTree ELSE dl
    /\ UNCHANGED <<config, use_uv, uv_path, lb_max_size_mb, outPackages, runtime,
                   ctor_args, io, requirements, probed, layer, outFiles, pc,
                   packages, layer_name, backend, resolved, resolveCalls,
                   included_deps, installLog, raised, callerError, result, stages,
                   zipRet, zipCalls, builds>>

NextLifecycle ==
    \/ StartBuild
    \/ Resolve
    \/ Filter
    \/ FetchInstall
    \/ FetchReturn
    \/ Assemble
    \/ EmbedSources
    \/ StripTests
    \/ SizeCheck
    \/ Archive
    \/ Except
    \/ Teardown

SpecLifecycle == Init /\ [][NextLifecycle]_vars

(***************************************************************************)
(* Properties                                                              *)
(***************************************************************************)

StageOrder ==
    <<"resolve", "filter", "fetch", "assemble", "embed", "strip", "size_check",
      "archive">>

LastStage == stages[Len(stages)]

\* the stage named has been executed in the current call
Ran(stage) == \E i \in 1..Len(stages) : stages[i] = stage

\* the current call has left the try block through an exception
Failing == pc \in {"except", "failed"}

\* download_packages has returned in the current call
FetchCompleted == Ran("fetch") /\ ~(Failing /\ LastStage = "fetch")

\* the <<name, version>> items of a mapping
Items(d) == {d[i] : i \in 1..Len(d)}

\* the <<name, version>> targets the installer was run with in this call
InstallTargets == {<<installLog[i].name, installLog[i].version>> : i \in 1..Len(installLog)}

\* the file with this name in the output directory, if any
FileExistsAt(name) == \E f \in outFiles : f.name = name

\* the site-packages directory of the default runtime, python3.9
SitePackages == <<"python", "lib", "python3.9", "site-packages">>

\* a path that test-stripping removes
IsTestPath(f) ==
    \E k \in 1..Len(f) : f[k] \in {"tests", "testing", "test_a.py", "x_test.py"}

\* C1: when create_layer_from_packages returns, the path it returns ends in
\* ".zip" and is the path of the archive the build wrote: a file exists at
\* the returned path in the output directory.
C1_ReturnedPathIsWrittenArchive ==
    pc = "done" =>
        /\ result[Len(result)] = ".zip"
        /\ zipRet.wrote.name = result
        /\ FileExistsAt(result)

\* C2: after a successful build, every file of every fetched package (that
\* test-stripping did not remove) is an entry of the archive under
\* python/lib/python3.9/site-packages/<package>/...
C2_PackagesUnderSitePackages ==
    pc = "done" =>
        \A i \in 1..Len(installLog) :
            \A f \in FilesOf(PkgTree(installLog[i].name)) :
                (config.strip_test_files /\ IsTestPath(f))
                \/ <<SitePackages \o f, PkgTree(installLog[i].name)[f]>>
                       \in zipRet.wrote.entries

\* C3: create_zip raises LayerSizeLimitError (with the actual and permitted
\* size) and leaves no archive on disk exactly when a ceiling is configured
\* and the written archive is larger than ceiling * 1024 * 1024 bytes; in
\* every other case it returns "<output_path>.zip" and that file exists.
C3_CreateZipCeiling ==
    pc = "zip_returned" =>
        LET zip_path == <<layer_name, ".zip">>
            over == /\ lb_max_size_mb # None
                    /\ zipRet.wrote.size > lb_max_size_mb[1] * MB
        IN  IF over
            THEN /\ raised.type = "LayerSizeLimitError"
                 /\ raised.text = <<zipRet.wrote.size, lb_max_size_mb[1]>>
                 /\ ~FileExistsAt(zip_path)
            ELSE /\ raised = NoExc
                 /\ zipRet.ret = zip_path
                 /\ FileExistsAt(zip_path)

\* C4: a build call executes its stages in the order resolve, filter, fetch,
\* assemble, embed sources, strip tests, size check, archive and never goes
\* back; once a stage has failed the call is in its failure path and no
\* later stage is executed.
C4_StagesInFixedOrder ==
    /\ Len(stages) <= Len(StageOrder)
    /\ stages = SubSeq(StageOrder, 1, Len(stages))
    /\ pc \in {"resolve", "filter", "fetch", "assemble", "embed", "strip",
               "size_check", "archive"}
         => Len(stages) < Len(StageOrder) /\ pc = StageOrder[Len(stages) + 1]
    /\ pc = "done" => stages = StageOrder
    /\ raised # NoExc => Failing
    /\ Failing => raised # NoExc /\ stages # <<>>

C4_Witness == pc = "done" /\ builds = 2 /\ Len(installLog) = 2

\* C5: the pipeline never retries and never translates errors: in one call
\* the resolver subprocess is started at most once, the installer at most
\* once per included package, and the error that reaches the caller is the
\* error the failing stage raised.
C5_NoRetryNoTranslation ==
    /\ resolveCalls <= 1
    /\ Len(installLog) <= Len(included_deps)
    /\ \A i \in 1..Len(installLog) :
          /\ installLog[i].name = included_deps[i][1]
          /\ \A j \in 1..Len(installLog) :
                installLog[i].name = installLog[j].name => i = j
    /\ pc = "failed" =>
          /\ callerError = raised
          /\ LastStage = "resolve" => callerError = resolved.exc
          /\ LastStage = "fetch" =>
                callerError = Exc("DependencyConflictError",
                                  "Failed to download packages: ", InstallStderr)
          /\ LastStage = "assemble" => callerError.type = "FileExistsError"
          /\ LastStage = "size_check" => callerError.type = "LayerSizeLimitError"
          /\ LastStage = "archive" => callerError = zipRet.exc
          /\ callerError # NoExc

C5_Witness ==
    /\ pc = "failed"
    /\ resolveCalls = 1
    /\ callerError = Exc("PackageNotFoundError", "Package not found: ", ErrNoVersion)

\* C6: when the files of the assembled layer tree (after embedding sources
\* and stripping tests) add up to more than max_size_mb * 1024 * 1024 bytes,
\* the call fails with LayerSizeLimitError carrying the actual and permitted
\* size and the archive stage never runs: create_zip is not invoked and the
\* call writes no archive.
C6_TreeSizeCeiling ==
    LET total == SumSizes(layer, FilesOf(layer))
        over  == total > config.max_size_mb * MB
    IN  /\ pc \in {"archive", "done"} => ~over
        /\ (Failing /\ LastStage = "archive") => ~over
        /\ (Failing /\ LastStage = "size_check") =>
              /\ over
              /\ raised = Exc("LayerSizeLimitError", "", <<total, config.max_size_mb>>)
              /\ zipCalls = 0
              /\ zipRet.wrote = NoArchive

C6_Witness ==
    /\ pc = "failed"
    /\ LastStage = "size_check"
    /\ callerError.type = "LayerSizeLimitError"
    /\ zipCalls = 0

\* C7: an excluded package is never installed, whatever include_dependencies
\* is; and when include_dependencies is true, every resolved package that is
\* not excluded is passed to the installer with its resolved version.
C7_ExcludedNeverInstalled ==
    /\ \A i \in 1..Len(installLog) :
          installLog[i].name \notin config.exclude_packages
    /\ (config.include_dependencies /\ Ran("filter")) =>
          Items(included_deps) =
              {d \in Items(resolved.deps) : d[1] \notin config.exclude_packages}
    /\ (config.include_dependencies /\ FetchCompleted) =>
          InstallTargets =
              {d \in Items(resolved.deps) : d[1] \notin config.exclude_packages}

C7_Witness ==
    /\ config.include_dependencies
    /\ config.exclude_packages = {<<"b">>}
    /\ <<"b">> \in DictKeys(resolved.deps)
    /\ FetchCompleted
    /\ Len(installLog) = 2

\* the bare name of a request: what precedes "[", "==", ">=" and "<",
\* in lower case
BareName(p) ==
    Lower(Split(Split(Split(Split(p, <<"[">>)[1], <<"=", "=">>)[1],
                      <<">", "=">>)[1], <<"<">>)[1])

\* C8: when include_dependencies is false, the packages passed to the
\* installer are exactly the resolved packages that are not excluded and
\* whose name is, case-insensitively, the bare name of a request.
C8_DirectDependenciesKept ==
    (~config.include_dependencies /\ FetchCompleted) =>
        InstallTargets =
            {d \in Items(resolved.deps) :
                /\ d[1] \notin config.exclude_packages
                /\ \E i \in 1..Len(resolved.req_file) :
                      Lower(d[1]) = BareName(resolved.req_file[i])}

\* an entry that is empty, all white space, or a comment
IsBlankOrComment(p) ==
    \/ \A j \in 1..Len(p) : IsSpace(p[j])
    \/ \E k \in 1..Len(p) : p[k] = "#" /\ \A j \in 1..(k - 1) : IsSpace(p[j])

\* C9: resolve_dependencies called with a list that is empty or holds only
\* blank entries and comments raises DependencyConflictError "No
\* dependencies to resolve", returns no mapping and starts no subprocess.
C9_NoInputError ==
    (pc = "resolve_returned" /\ \A i \in 1..Len(packages) : IsBlankOrComment(packages[i])) =>
        /\ resolved.exc = Exc("DependencyConflictError", "No dependencies to resolve", <<>>)
        /\ resolved.cmd = ""
        /\ backend = NoBackend
        /\ resolveCalls = 0

C9_Witness ==
    /\ pc = "resolve_returned"
    /\ packages = <<ReqIndentedComment, ReqBlank>>
    /\ resolved.exc.type = "DependencyConflictError"

\* text contains phrase when both are compared in lower case
MentionsCI(text, phrase) ==
    \E i \in 1..Len(text) :
        /\ i + Len(phrase) - 1 <= Len(text)
        /\ \A j \in 1..Len(phrase) : LowerChar(text[i + j - 1]) = phrase[j]

\* C10: when the resolver backend exits with failure, resolve_dependencies
\* raises PackageNotFoundError if the error output contains "not found" or
\* "could not find a version" (case-insensitively) and DependencyConflictError
\* carrying the raw error text otherwise; it returns no mapping.
C10_BackendFailureClassified ==
    (pc = "resolve_returned" /\ backend.status = "failed") =>
        /\ resolved.deps = <<>>
        /\ IF \/ MentionsCI(backend.stderr, NotFoundNeedle)
              \/ MentionsCI(backend.stderr, NoVersionNeedle)
           THEN resolved.exc.type = "PackageNotFoundError"
           ELSE /\ resolved.exc.type = "DependencyConflictError"
                /\ resolved.exc.text = backend.stderr

C10_Witness ==
    /\ pc = "resolve_returned"
    /\ backend.status = "failed"
    /\ backend.stderr = ErrUpperNotFound
    /\ resolved.exc.type = "PackageNotFoundError"

\* C11: whenever resolve_dependencies returns a mapping for a request list
\* with at least one request, with the fast resolver or with the fallback,
\* every request's bare name is, compared in lower case, a key of the mapping.
C11_KeysCoverRequests ==
    (pc = "resolve_returned" /\ resolved.exc = NoExc) =>
        \A i \in 1..Len(resolved.req_file) :
            \E k \in DictKeys(resolved.deps) :
                Lower(k) = BareName(resolved.req_file[i])

\* a line of the form name==version: not blank, not a comment, and exactly
\* one "==" in it
IsPinLine(line) ==
    /\ line # <<>>
    /\ ~StartsWith(line, <<"#">>)
    /\ Len(Split(line, <<"=", "=">>)) = 2

PinName(line) == Strip(Split(line, <<"=", "=">>)[1])

PinVersion(line) == Strip(Split(line, <<"=", "=">>)[2])

\* the entries the pin lines of an output stand for: for each name the
\* version of the last line that pins it
PinsOf(stdout) ==
    LET lines == SplitLines(stdout)
    IN  {<<PinName(lines[i]), PinVersion(lines[i])>> :
            i \in {j \in 1..Len(lines) :
                      /\ IsPinLine(lines[j])
                      /\ \A k \in (j + 1)..Len(lines) :
                            IsPinLine(lines[k]) => PinName(lines[k]) # PinName(lines[j])}}

\* a concrete version: not empty, and none of the characters of a range
IsConcreteVersion(v) ==
    /\ v # <<>>
    /\ \A i \in 1..Len(v) : v[i] \notin {"<", ">", ",", "*", "=", "~", "!", " "}

\* the mapping holds exactly the pins of the output, one entry per name, and
\* no exception was raised
ParsedAsPins ==
    (pc = "resolve_returned" /\ backend.status = "ok") =>
        /\ resolved.exc = NoExc
        /\ Items(resolved.deps) = PinsOf(backend.stdout)
        /\ \A i, j \in 1..Len(resolved.deps) :
              resolved.deps[i][1] = resolved.deps[j][1] => i = j

\* C12: when the backend succeeds, the returned mapping has one entry
\* name -> version per output line of the form name==version (a later line
\* replacing an earlier one of the same name), every other line is skipped
\* without an error, and every value is a concrete version, never a range
\* and never empty.
C12_ParsedVersionsConcrete ==
    /\ ParsedAsPins
    /\ (pc = "resolve_returned" /\ backend.status = "ok") =>
          \A i \in 1..Len(resolved.deps) : IsConcreteVersion(resolved.deps[i][2])

GivenConfig == IF ctor_args.config = <<>> THEN DefaultConfig ELSE ctor_args.config[1]

\* the constructor has got past the construction of the configuration
ConfigConstructed == pc \in {"ctor_manager", "ctor_builder", "ctor_runtime", "ctor_mkdir", "idle"}

\* the constructor has not yet run the statement that builds the configuration
BeforeConfig == pc \in {"ctor_start", "ctor_config"}

\* C14: constructing a packager with an optimization_level outside 0..2
\* fails with ConfigurationError whose config_key is optimization_level, and
\* at no point of that constructor call has any I/O been performed (no
\* scratch directory, no subprocess, no output directory).
C14_OptimizationLevelFailsFast ==
    (GivenConfig.optimization_level \notin 0..2) =>
        /\ io = <<>>
        /\ BeforeConfig \/ pc = "ctor_failed"
        /\ pc = "ctor_failed" =>
              /\ callerError.type = "ConfigurationError"
              /\ callerError.text = <<"optimization_level">>

C14_Witness ==
    /\ pc = "ctor_failed"
    /\ GivenConfig.optimization_level = 5
    /\ callerError.text = <<"optimization_level">>
    /\ io = <<>>

\* the runtimes the package supports
SupportedRuntimes == {"python3.7", "python3.8", "python3.9", "python3.10", "python3.11"}

\* the three conditions of a valid configuration, without the requirement
\* that compatible_runtimes is not empty
ValidButForEmptiness(c) ==
    /\ c.optimization_level \in 0..2
    /\ c.max_size_mb > 0
    /\ \A i \in 1..Len(c.compatible_runtimes) :
          c.compatible_runtimes[i] \in SupportedRuntimes

\* C15: a configuration that construction returns has optimization_level in
\* 0..2, max_size_mb > 0 and a non-empty compatible_runtimes within the
\* supported runtimes; every other combination fails construction with
\* ConfigurationError, and the constructor goes no further.
C15_ConstructedConfigValid ==
    LET valid == ValidButForEmptiness(GivenConfig)
                 /\ GivenConfig.compatible_runtimes # <<>>
    IN  /\ ConfigConstructed => valid /\ config = GivenConfig
        /\ (~valid /\ ~BeforeConfig) =>
              /\ pc = "ctor_failed"
              /\ callerError.type = "ConfigurationError"

\* the constructor ended before its runtime check, in the construction of
\* the dependency manager
ManagerConstructionFailed == pc = "ctor_failed" /\ callerError.type = "OSError"

NoTestPaths(paths) == \A f \in paths : ~IsTestPath(f)

\* C17: with strip_test_files enabled, the layer tree holds no test file and
\* no tests/testing directory, at any depth, when its size is measured (the
\* size check) and when it is archived, so no archive the packager writes
\* has an entry that is a test file or lies inside such a directory.
C17_NoTestFilesArchived ==
    config.strip_test_files =>
        /\ (\/ pc \in {"size_check", "archive", "done"}
            \/ Failing /\ LastStage \in {"size_check", "archive"}) =>
              NoTestPaths(DOMAIN layer)
        /\ NoTestPaths({e[1] : e \in zipRet.wrote.entries})
        /\ \A f \in outFiles : NoTestPaths({e[1] : e \in f.entries})

C17_Witness ==
    /\ config.strip_test_files
    /\ pc = "done"
    /\ outPackages # EmptyTree
    /\ \E i \in 1..Len(installLog) : installLog[i].name = <<"a">>
    /\ config.include_source = <<"missing", "mod">>
    /\ <<<<"a", "__init__.py">>, "a_init">> \in zipRet.wrote.entries
    /\ <<<<"mod", "x.py">>, "m_x">> \in zipRet.wrote.entries
    /\ <<<<"python", "lib", "python3.9", "site-packages", "vendored", "v.py">>, "v_py">>
           \in zipRet.wrote.entries

JustEmbedded == pc = "strip" /\ LastStage = "embed"

\* C19: the embed stage never fails; when it has run, every configured
\* source path that exists is in the layer directory under its base name,
\* a directory with everything below it, whatever nonexistent paths precede
\* it in the list, and a nonexistent path has put nothing there.
C19_SourcesEmbedded ==
    /\ ~(Failing /\ LastStage = "embed")
    /\ JustEmbedded =>
          \A i \in 1..Len(config.include_source) :
              LET n == config.include_source[i]
              IN  IF <<n>> \in DOMAIN SourceFS
                  THEN \A q \in DOMAIN SourceFS :
                          (q # <<>> /\ q[1] = n) =>
                              q \in DOMAIN layer /\ layer[q] = SourceFS[q]
                  ELSE <<n>> \notin DOMAIN layer

C19_Witness ==
    /\ JustEmbedded
    /\ config.include_source = <<"missing", "mod">>
    /\ <<"mod", "x.py">> \in DOMAIN layer
    /\ <<"mod", "x_test.py">> \in DOMAIN layer

\* the entry named i under the directory at in tree t is exactly the
\* top-level entry i of tree src: the same paths with the same contents
SameEntry(t, at, src, i) ==
    /\ \A q \in DOMAIN src :
          (q # <<>> /\ q[1] = i) =>
              (at \o q) \in DOMAIN t /\ t[at \o q] = src[q]
    /\ \A r \in DOMAIN t :
          (Len(r) > Len(at) /\ SubSeq(r, 1, Len(at)) = at /\ r[Len(at) + 1] = i) =>
              SubSeq(r, Len(at) + 1, Len(r)) \in DOMAIN src

\* C20: assembly never fails on a destination entry that already exists, in
\* particular not when the same directories are assembled again by a second
\* build; right after it, each top-level entry of the packages directory is
\* under site-packages, and each top-level entry of the download directory
\* is under the layer root, with exactly the contents of its source.
C20_AssemblyOverwriteSafe ==
    /\ ~(Failing /\ LastStage = "assemble")
    /\ (pc = "embed" /\ LastStage = "assemble") =>
          /\ \A q \in DOMAIN outPackages :
                Len(q) = 1 => SameEntry(layer, SitePackages, outPackages, q[1])
          /\ \A q \in DOMAIN dl :
                Len(q) = 1 => SameEntry(layer, <<>>, dl, q[1])

\* the package specification of a line: what precedes the first "#",
\* without the surrounding white space
SpecificationOf(line) == Strip(Split(line, <<"#">>)[1])

\* the lines that are neither blank nor comments, in file order
RECURSIVE SpecificationsOf(_)
SpecificationsOf(lines) ==
    IF lines = <<>> THEN <<>>
    ELSE IF Strip(Head(lines)) = <<>> \/ Strip(Head(lines))[1] = "#"
         THEN SpecificationsOf(Tail(lines))
         ELSE <<SpecificationOf(Head(lines))>> \o SpecificationsOf(Tail(lines))

\* C21: create_layer_from_requirements hands to the pipeline exactly the
\* package specifications of the file's lines that are neither blank nor
\* comments, in file order, each without surrounding white space and without
\* an inline "#" comment; when the file does not exist it fails with a
\* file-not-found error and no stage of the pipeline has run.
C21_RequirementsParsed ==
    /\ (requirements # None /\ pc = "resolve") =>
          packages = SpecificationsOf(Split(requirements[1], <<"\n">>))
    /\ (requirements = None /\ pc # "idle") =>
          /\ pc = "failed"
          /\ callerError.type = "FileNotFoundError"
          /\ stages = <<>>
          /\ resolveCalls = 0

\* every probe command the constructor ran ended with exit 0
ProbesSucceeded ==
    /\ probed.version = "ok"
    /\ ctor_args.uv_path = None => probed.which = "ok"

ContentsOf(t) == {t[f] : f \in FilesOf(t)}

\* the contents this call may put into its archive: the files of its included
\* packages, of its configured extra sources, and of the packages directory
CallContents ==
    UNION {ContentsOf(PkgTree(n)) : n \in {d[1] : d \in Items(included_deps)}}
    \cup {SourceFS[f] : f \in {g \in FilesOf(SourceFS) :
                                  g[1] \in Items(config.include_source)}}
    \cup ContentsOf(outPackages)

\* C25: the archive of every successful call, whatever calls came before on
\* the same packager and output directory, holds only files of this call's
\* included packages and configured extra sources.
C25_BuildsIsolated ==
    pc = "done" => \A e \in zipRet.wrote.entries : e[2] \in CallContents

\* the names an archive of this layer name may have in the output directory
ArchiveNames(name) == {ZipPath(name), Append(ZipPath(name), ".zip")}

\* C26: after a call that failed with LayerSizeLimitError, raised by the
\* tree-size check or by the archive-size check, the output directory holds
\* no archive of that layer name, not even one an earlier call left there.
C26_NoArchiveAfterSizeFailure ==
    (pc = "failed" /\ callerError.type = "LayerSizeLimitError") =>
        \A n \in ArchiveNames(layer_name) : ~FileExistsAt(n)

\* C27: the step that embeds the extra source paths only adds entries to the
\* layer: every directory and file the layer held before is still there with
\* the same content afterwards.
C27_EmbedOnlyAdds ==
    [][pc = "embed" =>
          \A q \in DOMAIN layer : q \in DOMAIN layer' /\ layer'[q] = layer[q]]_vars

=============================================================================
